---- MODULE Spec2Model ----
(***************************************************************************)
(* A model of wsi_reader: the region-addressing layer of WSIReader         *)
(* (base.py) over the TiffReader backend (tifffile_backend.py), and the    *)
(* memoization and close() of the three backends.                          *)
(*                                                                         *)
(* Conventions                                                             *)
(*  - levels are numbered from 0 as in the source; level l of a pyramid    *)
(*    is element l + 1 of a TLA+ sequence;                                 *)
(*  - a float is modelled by the exact rational it stands for, a pair      *)
(*    <<n, d>> with d > 0; round() is Python's round-half-to-even;         *)
(*  - an array is a record [h, w, at] with at a function on                *)
(*    (0..h-1) \X (0..w-1), row index first as in numpy;                   *)
(*  - an exception is a result record whose status names its type.         *)
(***************************************************************************)
EXTENDS Integers, Sequences, FiniteSets, TLC

(***************************************************************************)
(* Bounds of the model.                                                    *)
(***************************************************************************)
\* region reads: the largest level-0 width and height, level count and
\* requested side
MaxDim == 3
MaxHeight == 2
MaxLevels == 2
MaxSize == 2
\* metadata queries: the largest level-0 side and level count
MetaDim == 4
MetaLevels == 3
\* handle life cycle: the largest level-0 side and how far origins stray
LifeDim == 2
LifeOff == 1
\* reads by downsample: the largest level-0 side, level count and origin
DsDim == 4
DsLevels == 3
DsOrigin == 2
\* closing: the largest level-0 side and the most close() calls on one handle
CloseDim == 2
MaxCloses == 3

(***************************************************************************)
(* Arithmetic of the source language.                                      *)
(***************************************************************************)
Max(a, b) == IF a >= b THEN a ELSE b
Min(a, b) == IF a <= b THEN a ELSE b

\* round(n / d) for d > 0: to the nearest integer, ties to the even one.
PyRound(n, d) ==
    LET q == n \div d
        r == n % d
    IN  IF 2 * r < d THEN q
        ELSE IF 2 * r > d THEN q + 1
        ELSE IF q % 2 = 0 THEN q ELSE q + 1

RatLT(a, b) == a[1] * b[2] < b[1] * a[2]
RatLE(a, b) == a[1] * b[2] <= b[1] * a[2]
RatEq(a, b) == a[1] * b[2] = b[1] * a[2]
RatMin(a, b) == IF RatLE(a, b) THEN a ELSE b
RatIn(a, s) == \E k \in 1..Len(s) : RatEq(a, s[k])

(***************************************************************************)
(* Arrays.                                                                 *)
(***************************************************************************)
Cells(h, w) == (0..(h - 1)) \X (0..(w - 1))

\* np.ones / constant fill: an h x w array of v.
Full(h, w, v) == [h |-> h, w |-> w, at |-> [c \in Cells(h, w) |-> v]]

EmptyArray == Full(0, 0, 0)

\* The values a mask entry can take.  An entry whose value the model does not
\* compute (bicubic interpolation over a mixed neighbourhood) is MaskEither.
MaskTrue == {TRUE}
MaskFalse == {FALSE}
MaskEither == {TRUE, FALSE}

\* A pixel value produced by interpolating unequal neighbours.
Interpolated == 0 - 1

\* np.pad(a, [(top, bottom), (left, right)], "constant", constant_values=fill)
Pad(a, top, bottom, left, right, fill) ==
    [h |-> top + a.h + bottom,
     w |-> left + a.w + right,
     at |-> [c \in Cells(top + a.h + bottom, left + a.w + right) |->
               IF /\ c[1] >= top /\ c[1] < top + a.h
                  /\ c[2] >= left /\ c[2] < left + a.w
               THEN a.at[<<c[1] - top, c[2] - left>>]
               ELSE fill]]

\* The source taps of destination index i when an axis of sn samples is
\* resized to dn samples with a 4-tap (bicubic) kernel, borders replicated.
Taps(i, sn, dn) ==
    LET s == ((2 * i + 1) * sn - dn) \div (2 * dn)
    IN  {Max(0, Min(sn - 1, s + k)) : k \in (0 - 1)..2}

\* The kernel's weights sum to one: equal neighbours give that value, unequal
\* ones a value the model leaves open (mixed).
Blend(S, mixed) == IF Cardinality(S) = 1 THEN CHOOSE v \in S : TRUE ELSE mixed

\* cv2.resize(a, (dw, dh), interpolation=cv2.INTER_CUBIC), defined when the
\* source is not empty and the target size is positive (ResizeFails otherwise).
ResizeFails(a, dw, dh) == a.h <= 0 \/ a.w <= 0 \/ dw <= 0 \/ dh <= 0

Resize(a, dw, dh, mixed) ==
    IF a.h = dh /\ a.w = dw THEN a
    ELSE [h |-> dh, w |-> dw,
          at |-> [c \in Cells(dh, dw) |->
                    Blend({a.at[<<r, k>>] : r \in Taps(c[1], a.h, dh),
                                           k \in Taps(c[2], a.w, dw)}, mixed)]]

(***************************************************************************)
(* Results of the public operations.                                       *)
(***************************************************************************)
\* A returned (tile, alfa_mask) pair; dtype is the tile's element type: a
\* "float32" tile holds v / 255 where the model's entry is v.
\* The fields of a result that hold no (tile, alfa_mask) pair: a level, a
\* (width, height) pair, a list of pairs.
Result(status, tile, mask, dtype, level, dims, list) ==
    [status |-> status, tile |-> tile, mask |-> mask, dtype |-> dtype,
     level |-> level, dims |-> dims, list |-> list]
Ok(tile, mask, dtype) == Result("ok", tile, mask, dtype, 0 - 1, <<0, 0>>, <<>>)
Raise(exc) == Result(exc, EmptyArray, EmptyArray, "none", 0 - 1, <<0, 0>>, <<>>)
\* A returned level, (width, height) pair or list; None for no value.
LevelValue(l) == Result("ok", EmptyArray, EmptyArray, "none", l, <<0, 0>>, <<>>)
DimsValue(d) == Result("ok", EmptyArray, EmptyArray, "none", 0 - 1, d, <<>>)
ListValue(s) == Result("ok", EmptyArray, EmptyArray, "none", 0 - 1, <<0, 0>>, s)
None == Result("ok", EmptyArray, EmptyArray, "none", 0 - 1, <<0, 0>>, <<>>)

(***************************************************************************)
(* The slide file: level_dimensions as stored, and its pixels.             *)
(***************************************************************************)
\* The content of the slide at (x, y) of a level: distinct, never zero.
SlidePixel(dims, level, x, y) == 1 + level + Len(dims) * (x + y * dims[level + 1][1])

\* Python's a[start:stop] on an axis of n samples, start >= 0: the indices kept.
SliceStart(start, n) == Min(start, n)
SliceStop(stop, n) == IF stop < 0 THEN Max(stop + n, 0) ELSE Min(stop, n)
SliceLen(start, stop, n) == Max(0, SliceStop(stop, n) - SliceStart(start, n))

\* TiffReader._read_region: fail is a failure of the underlying read.
TiffReadRegion(dims, x, y, level, tile_w, tile_h, fail) ==
    LET W == dims[level + 1][1]
        H == dims[level + 1][2]
        sh == SliceLen(y, y + tile_h, H)
        sw == SliceLen(x, x + tile_w, W)
    IN  IF fail THEN Raise("BackendError")
        ELSE IF tile_h < 0 \/ tile_w < 0 THEN Raise("ValueError")
        ELSE Ok([h |-> sh, w |-> sw,
                 at |-> [c \in Cells(sh, sw) |->
                           SlidePixel(dims, level, SliceStart(x, W) + c[2],
                                      SliceStart(y, H) + c[1])]],
                Full(tile_h, tile_w, MaskTrue), "uint8")

\* WSIReader._normalize
Normalize(dtype) == IF dtype = "uint8" THEN "float32" ELSE dtype

(***************************************************************************)
(* WSIReader.level_downsamples (base.py), as TiffReader inherits it.       *)
(***************************************************************************)
\* level_downsamples taking each ratio to the previous level, not to level 0
DownsamplesFromPreviousLevel(dims) ==
    [l \in 1..Len(dims) |-> <<PyRound(dims[Max(1, l - 1)][1], dims[l][1]), 1>>]

level_downsamples(dims) == [l \in 1..Len(dims) |-> <<PyRound(dims[1][1], dims[l][1]), 1>>]

(***************************************************************************)
(* WSIReader.read_region.  x_y and tile_size are pairs <<x, y>> and        *)
(* <<w, h>>; the value is [res, fetches]: the result and the backend       *)
(* fetches issued, in order.                                               *)
(***************************************************************************)
\* ClipAxis without the shrinking of the extent by a negative origin
ClipAxisNoShrink(x, tile_w, width) ==
    LET x1 == Max(x, 0)
        w2 == IF x1 + tile_w > width THEN width - x1 ELSE tile_w
    IN  <<x1, w2>>

\* lines 61-66, one axis: the clipped <<origin, extent>> in the fetch frame
ClipAxis(x, tile_w, width) ==
    LET w1 == IF x < 0 THEN tile_w + x ELSE tile_w
        x1 == Max(x, 0)
        w2 == IF x1 + w1 > width THEN width - x1 ELSE w1
    IN  <<x1, w2>>

\* lines 86-96: pad tile and mask to the requested size
PadRegion(tile, mask, dtype, x_y, tile_size, x, y, tile_w, tile_h) ==
    LET top == y - x_y[2]
        bottom == tile_size[2] - tile_h + Min(x_y[2], 0)
        left == x - x_y[1]
        right == tile_size[1] - tile_w + Min(x_y[1], 0)
    IN  IF top < 0 \/ bottom < 0 \/ left < 0 \/ right < 0 THEN Raise("ValueError")
        ELSE Ok(Pad(tile, top, bottom, left, right, 0),
                Pad(mask, top, bottom, left, right, MaskFalse), dtype)

read_region(dims, x_y, level, tile_size, normalize, downsample_level_0, fail) ==
    LET synth == downsample_level_0 /\ level > 0
        downsample == IF synth THEN PyRound(dims[1][1], dims[level + 1][1]) ELSE 1
        x0 == IF synth THEN x_y[1] * downsample ELSE x_y[1]
        y0 == IF synth THEN x_y[2] * downsample ELSE x_y[2]
        w0 == IF synth THEN tile_size[1] * downsample ELSE tile_size[1]
        h0 == IF synth THEN tile_size[2] * downsample ELSE tile_size[2]
        width == IF synth THEN dims[1][1] ELSE dims[level + 1][1]
        height == IF synth THEN dims[1][2] ELSE dims[level + 1][2]
        cx == ClipAxis(x0, w0, width)
        cy == ClipAxis(y0, h0, height)
        flevel == IF downsample_level_0 THEN 0 ELSE level
        fetch == [x_y |-> <<cx[1], cy[1]>>, level |-> flevel, tile_size |-> <<cx[2], cy[2]>>]
        got == TiffReadRegion(dims, cx[1], cy[1], flevel, cx[2], cy[2], fail)
        tile_w == IF synth THEN cx[2] \div downsample ELSE cx[2]
        tile_h == IF synth THEN cy[2] \div downsample ELSE cy[2]
        x == IF synth THEN cx[1] \div downsample ELSE cx[1]
        y == IF synth THEN cy[1] \div downsample ELSE cy[1]
        dtype == IF normalize THEN Normalize(got.dtype) ELSE got.dtype
    IN  [fetches |-> <<fetch>>,
         res |->
           IF got.status # "ok" THEN got
           ELSE IF synth /\ (ResizeFails(got.tile, tile_w, tile_h)
                             \/ ResizeFails(got.mask, tile_w, tile_h))
           THEN Raise("cv2.error")
           ELSE IF synth
           THEN PadRegion(Resize(got.tile, tile_w, tile_h, Interpolated),
                          Resize(got.mask, tile_w, tile_h, MaskEither),
                          dtype, x_y, tile_size, x, y, tile_w, tile_h)
           ELSE PadRegion(got.tile, got.mask, dtype, x_y, tile_size, x, y, tile_w, tile_h)]

(***************************************************************************)
(* WSIReader.get_best_level_for_downsample: lds is level_downsamples, the  *)
(* value a level numbered from 0.                                          *)
(***************************************************************************)
\* get_best_level_for_downsample returning i where the source returns i - 1
BestLevelOffByOne(lds, downsample) ==
    LET hits == {i \in 1..(Len(lds) - 1) : RatLT(downsample, lds[i + 1])}
    IN  IF RatLT(downsample, lds[1]) THEN 0
        ELSE IF hits # {} THEN CHOOSE i \in hits : \A k \in hits : i <= k
        ELSE Len(lds) - 1

get_best_level_for_downsample(lds, downsample) ==
    LET hits == {i \in 1..(Len(lds) - 1) : RatLT(downsample, lds[i + 1])}
    IN  IF RatLT(downsample, lds[1]) THEN 0
        ELSE IF hits # {} THEN (CHOOSE i \in hits : \A k \in hits : i <= k) - 1
        ELSE Len(lds) - 1

(***************************************************************************)
(* WSIReader.get_dimensions_for_downsample                                 *)
(***************************************************************************)
\* list.index: the first position holding the value, numbered from 0
ListIndex(lds, v) ==
    (CHOOSE i \in 1..Len(lds) : RatEq(lds[i], v) /\ \A k \in 1..(i - 1) : ~RatEq(lds[k], v)) - 1

\* get_dimensions_for_downsample without the lookup of known levels
DimensionsAlwaysRounded(dims, downsample) ==
    IF downsample[1] <= 0 THEN Raise("RuntimeError")
    ELSE DimsValue(<<PyRound(dims[1][1] * downsample[2], downsample[1]),
                     PyRound(dims[1][2] * downsample[2], downsample[1])>>)

get_dimensions_for_downsample(dims, downsample) ==
    IF downsample[1] <= 0 THEN Raise("RuntimeError")
    ELSE IF RatIn(downsample, level_downsamples(dims))
    THEN DimsValue(dims[ListIndex(level_downsamples(dims), downsample) + 1])
    ELSE DimsValue(<<PyRound(dims[1][1] * downsample[2], downsample[1]),
                 PyRound(dims[1][2] * downsample[2], downsample[1])>>)

(***************************************************************************)
(* WSIReader.read_region_ds; downsample is a rational.                     *)
(***************************************************************************)
\* lines 149-152: resample the level's block to the requested size
ResizeRegion(r, tile_size) ==
    IF r.status # "ok" THEN r
    ELSE IF ResizeFails(r.tile, tile_size[1], tile_size[2])
            \/ ResizeFails(r.mask, tile_size[1], tile_size[2])
    THEN Raise("cv2.error")
    ELSE Ok(Resize(r.tile, tile_size[1], tile_size[2], Interpolated),
            Resize(r.mask, tile_size[1], tile_size[2], MaskEither), r.dtype)

\* lines 154-155
NormalizeResult(r, normalize) ==
    IF r.status = "ok" /\ normalize THEN [r EXCEPT !.dtype = Normalize(r.dtype)] ELSE r

read_region_ds(dims, x_y, downsample, tile_size, normalize, downsample_level_0, fail) ==
    LET lds == level_downsamples(dims)
        force == IF RatEq(downsample, <<1, 1>>) THEN FALSE ELSE downsample_level_0
        best == get_best_level_for_downsample(lds, downsample)
        level == IF force THEN 0 ELSE best
        num == downsample[1] * lds[level + 1][2]
        den == downsample[2] * lds[level + 1][1]
        x_y_level == <<PyRound(x_y[1] * num, den), PyRound(x_y[2] * num, den)>>
        tile_size_level == <<PyRound(tile_size[1] * num, den), PyRound(tile_size[2] * num, den)>>
        direct == read_region(dims, x_y, best, tile_size, FALSE, FALSE, fail)
        scaled == read_region(dims, x_y_level, level, tile_size_level, FALSE, force, fail)
    IN  IF downsample[1] <= 0 THEN [fetches |-> <<>>, res |-> Raise("RuntimeError")]
        ELSE IF RatIn(downsample, lds) /\ ~force
        THEN [fetches |-> direct.fetches, res |-> NormalizeResult(direct.res, normalize)]
        ELSE [fetches |-> scaled.fetches,
              res |-> NormalizeResult(ResizeRegion(scaled.res, tile_size), normalize)]

(***************************************************************************)
(* WSIReader.get_downsampled_slide                                         *)
(***************************************************************************)
get_downsampled_slide(dims, box, normalize, fail) ==
    LET downsample == RatMin(<<dims[1][1], box[1]>>, <<dims[1][2], box[2]>>)
        size == get_dimensions_for_downsample(dims, downsample)
    IN  IF size.status # "ok" THEN [fetches |-> <<>>, res |-> size]
        ELSE read_region_ds(dims, <<0, 0>>, downsample, size.dims, normalize, FALSE, fail)

(***************************************************************************)
(* WSIReader.__exit__: what the scope does with the exception (or "none")  *)
(* that leaves its body.  The method calls close() and returns None, so    *)
(* the exception is not suppressed.                                        *)
(***************************************************************************)
\* an __exit__ that closes only when the body completed normally
ExitClosesOnSuccess(exc) == [close |-> exc = "none", suppress |-> FALSE]

exit_scope(exc) == [close |-> TRUE, suppress |-> FALSE]

(***************************************************************************)
(* The slides and the arguments the model draws from.                      *)
(***************************************************************************)
NonIncreasing(p) ==
    \A l \in 2..Len(p) : p[l][1] <= p[l - 1][1] /\ p[l][2] <= p[l - 1][2]

\* level_dimensions of every pyramid of up to n levels, level 0 up to w x h
Pyramids(w, h, n) ==
    {p \in UNION {[1..k -> (1..w) \X (1..h)] : k \in 1..n} : NonIncreasing(p)}

Origins(lo, xhi, yhi) == (lo..xhi) \X (lo..yhi)
Sizes(n) == (1..n) \X (1..n)
\* downsample factors in halves, from -1/2 up to hi + 1/2
Downsamples(hi) == {<<n, 2>> : n \in (0 - 1)..(2 * hi + 1)}

NoCall ==
    [op |-> "none", x_y |-> <<0, 0>>, level |-> 0, downsample |-> <<1, 1>>,
     tile_size |-> <<1, 1>>, normalize |-> FALSE, downsample_level_0 |-> FALSE,
     fail |-> FALSE]

(***************************************************************************)
(* State.                                                                  *)
(*  backend    the reader class of the handle: "tifffile" (TiffReader),    *)
(*             "openslide" (OpenslideReader) or "philips" (IsyntaxReader)  *)
(*  slide      level_dimensions stored in the file (never changes)         *)
(*  store      "open" or "closed": the backend resource of the handle      *)
(*  cached     the memoized attributes present on the handle (hasattr)     *)
(*  call, ret  the last operation called, its arguments, and its result    *)
(*  fetches    the backend fetches (_read_region) issued by that call      *)
(*  scope      "none", "body", "unwinding" (an exception is leaving the    *)
(*             body of a with statement) or "exited"                       *)
(*  pending    the exception that left the body of the scope, or "none"    *)
(*  closes     the number of close() calls so far                          *)
(*  propagated the exception the with statement raised to its caller       *)
(***************************************************************************)
VARIABLES backend, slide, store, cached, call, ret, fetches, scope, pending, closes,
          propagated

vars == <<backend, slide, store, cached, call, ret, fetches, scope, pending, closes,
          propagated>>

Backends == {"tifffile", "openslide", "philips"}

InitHandle ==
    /\ store = "open"
    /\ cached = {}
    /\ call = NoCall
    /\ ret = None
    /\ fetches = <<>>
    /\ scope = "none"
    /\ pending = "none"
    /\ closes = 0
    /\ propagated = "none"

\* The handle can be used: it is open and no exception is unwinding a scope.
Usable == store = "open" /\ scope \in {"none", "body"}

\* An operation returns r (or raises it) after memoizing the attributes in memo.
Return(c, r, f, memo) ==
    /\ call' = c
    /\ ret' = r
    /\ fetches' = f
    /\ cached' = cached \cup memo
    /\ scope' = IF scope = "body" /\ r.status # "ok" THEN "unwinding" ELSE scope
    /\ pending' = IF scope = "body" /\ r.status # "ok" THEN r.status ELSE pending
    /\ UNCHANGED <<backend, slide, store, closes, propagated>>

\* The attributes the properties memoize on first access.  level_dimensions
\* is memoized by TiffReader and IsyntaxReader; OpenslideReader asks the
\* library each time.
MemoDimensions == IF backend = "openslide" THEN {} ELSE {"_level_dimensions"}
\* level_downsamples: TiffReader inherits the derived list, which also reads
\* level_dimensions; IsyntaxReader memoizes its own; OpenslideReader asks the
\* library.
MemoDownsamples ==
    CASE backend = "tifffile" -> {"_level_downsamples", "_level_dimensions"}
      [] backend = "philips" -> {"_level_downsamples"}
      [] OTHER -> {}
\* tile_dimensions is memoized by every backend
MemoTileDimensions == {"_tile_dimensions"}
\* mpp is memoized by TiffReader only
MemoMpp == IF backend = "tifffile" THEN {"_mpp"} ELSE {}
\* _read_region: IsyntaxReader looks up level_downsamples for its view range
MemoFetch == IF backend = "philips" THEN {"_level_downsamples"} ELSE {}

ReadRegion(XY, TS, NORM, FAIL) ==
    /\ Usable
    /\ \E x_y \in XY, level \in 0..(Len(slide) - 1), tile_size \in TS,
          normalize \in NORM, force \in BOOLEAN, fail \in FAIL :
          LET r == read_region(slide, x_y, level, tile_size, normalize, force, fail)
          IN  Return([NoCall EXCEPT !.op = "read_region", !.x_y = x_y, !.level = level,
                                    !.tile_size = tile_size, !.normalize = normalize,
                                    !.downsample_level_0 = force, !.fail = fail],
                     r.res, r.fetches, MemoDimensions \cup MemoFetch)

\* read_region_ds looking up level_downsamples before it checks its argument
MemoBeforeCheck(downsample) == MemoDownsamples

\* the attributes read_region_ds touches: none when it rejects its argument
MemoReadRegionDs(downsample) ==
    IF downsample[1] <= 0 THEN {} ELSE MemoDownsamples \cup MemoDimensions \cup MemoFetch

ReadRegionDs(XY, DS, TS, NORM, FAIL) ==
    /\ Usable
    /\ \E x_y \in XY, downsample \in DS, tile_size \in TS,
          normalize \in NORM, force \in BOOLEAN, fail \in FAIL :
          LET r == read_region_ds(slide, x_y, downsample, tile_size, normalize, force, fail)
          IN  Return([NoCall EXCEPT !.op = "read_region_ds", !.x_y = x_y,
                                    !.downsample = downsample,
                                    !.tile_size = tile_size, !.normalize = normalize,
                                    !.downsample_level_0 = force, !.fail = fail],
                     r.res, r.fetches, MemoReadRegionDs(downsample))

GetBestLevelForDownsample(DS) ==
    /\ Usable
    /\ \E downsample \in DS :
          Return([NoCall EXCEPT !.op = "get_best_level_for_downsample",
                                !.downsample = downsample],
                 LevelValue(get_best_level_for_downsample(level_downsamples(slide), downsample)),
                 <<>>, MemoDownsamples)

MemoGetDimensions(downsample) ==
    IF downsample[1] <= 0 THEN {} ELSE MemoDownsamples \cup MemoDimensions

GetDimensionsForDownsample(DS) ==
    /\ Usable
    /\ \E downsample \in DS :
          Return([NoCall EXCEPT !.op = "get_dimensions_for_downsample",
                                !.downsample = downsample],
                 get_dimensions_for_downsample(slide, downsample),
                 <<>>, MemoGetDimensions(downsample))

GetDownsampledSlide(TS, NORM, FAIL) ==
    /\ Usable
    /\ \E box \in TS, normalize \in NORM, fail \in FAIL :
          LET r == get_downsampled_slide(slide, box, normalize, fail)
          IN  Return([NoCall EXCEPT !.op = "get_downsampled_slide", !.tile_size = box,
                                    !.normalize = normalize, !.fail = fail],
                     r.res, r.fetches, MemoDownsamples \cup MemoDimensions \cup MemoFetch)

\* level_downsamples as the handle reports it: TiffReader derives it from
\* the level widths; OpenslideReader and IsyntaxReader pass on the list of
\* their library, for which the model takes the exact width ratios.
ReportedDownsamples ==
    IF backend = "tifffile" THEN level_downsamples(slide)
    ELSE [l \in 1..Len(slide) |-> <<slide[1][1], slide[l][1]>>]

LevelDownsamples ==
    /\ Usable
    /\ Return([NoCall EXCEPT !.op = "level_downsamples"],
              ListValue(ReportedDownsamples), <<>>, MemoDownsamples)

LevelDimensions ==
    /\ Usable
    /\ Return([NoCall EXCEPT !.op = "level_dimensions"],
              ListValue(slide), <<>>, MemoDimensions)

\* tile_dimensions: the tile geometry of each level, read from the file's
\* metadata on first access.  The model does not carry tile geometry: the
\* value returned is left out, the memoization is not.
TileDimensions ==
    /\ Usable
    /\ Return([NoCall EXCEPT !.op = "tile_dimensions"], None, <<>>, MemoTileDimensions)

\* mpp: microns per pixel, read from the file's metadata (value left out).
Mpp ==
    /\ Usable
    /\ Return([NoCall EXCEPT !.op = "mpp"], None, <<>>, MemoMpp)

\* The library call that opens close(): _store.close(), _slide.close() or
\* _pe["in"].close().  It releases an open resource.  close() calls it with
\* no check of the handle's state, so on a resource already released the
\* outcome is the library's: it returns, or it raises.
LibraryClose(st) == IF st = "open" THEN {"ok"} ELSE {"ok", "BackendError"}

\* a close() that forgets the derived downsample list
CloseKeepsDownsamples(b) ==
    CASE b = "tifffile" -> {"_mpp", "_tile_dimensions", "_level_dimensions"}
      [] b = "philips" -> {"_tile_dimensions", "_level_dimensions"}
      [] OTHER -> {"_tile_dimensions"}

\* the attributes close() deletes (each under hasattr) after the library call
CloseDeletes(b) ==
    CASE b = "tifffile" -> {"_mpp", "_tile_dimensions", "_level_dimensions",
                            "_level_downsamples"}
      [] b = "philips" -> {"_tile_dimensions", "_level_dimensions", "_level_downsamples"}
      [] OTHER -> {"_tile_dimensions"}

\* close() when the library call has outcome out: an exception of the library
\* leaves close() before any attribute is deleted.
close(b, attrs, out) ==
    [store |-> "closed",
     cached |-> IF out = "ok" THEN attrs \ CloseDeletes(b) ELSE attrs,
     res |-> IF out = "ok" THEN None ELSE Raise(out)]

\* close() called by the program, outside a scope, in the body of one or
\* after it.
Close ==
    /\ scope \in {"none", "body", "exited"}
    /\ closes < MaxCloses
    /\ \E out \in LibraryClose(store) :
          LET c == close(backend, cached, out)
          IN  /\ store' = c.store
              /\ cached' = c.cached
              /\ ret' = c.res
              /\ scope' = IF scope = "body" /\ out # "ok" THEN "unwinding" ELSE scope
              /\ pending' = IF scope = "body" /\ out # "ok" THEN out ELSE pending
    /\ closes' = closes + 1
    /\ call' = [NoCall EXCEPT !.op = "close"]
    /\ fetches' = <<>>
    /\ UNCHANGED <<backend, slide, propagated>>

\* with reader as r: ... : __enter__ returns the handle itself
Enter ==
    /\ store = "open"
    /\ scope = "none"
    /\ scope' = "body"
    /\ call' = [NoCall EXCEPT !.op = "__enter__"]
    /\ ret' = None
    /\ fetches' = <<>>
    /\ UNCHANGED <<backend, slide, store, cached, pending, closes, propagated>>

\* The body ends, normally or by the pending exception: __exit__ runs.  An
\* exception raised by its close() is the one the with statement raises.
Exit ==
    /\ scope \in {"body", "unwinding"}
    /\ \E out \in LibraryClose(store) :
          LET e == exit_scope(pending)
              c == close(backend, cached, out)
          IN  /\ store' = IF e.close THEN c.store ELSE store
              /\ cached' = IF e.close THEN c.cached ELSE cached
              /\ closes' = IF e.close THEN closes + 1 ELSE closes
              /\ ret' = IF e.close THEN c.res ELSE None
              /\ propagated' = IF e.close /\ out # "ok" THEN out
                               ELSE IF e.suppress THEN "none" ELSE pending
    /\ scope' = "exited"
    /\ pending' = pending
    /\ call' = [NoCall EXCEPT !.op = "__exit__"]
    /\ fetches' = <<>>
    /\ UNCHANGED <<backend, slide>>

(***************************************************************************)
(* Spec: the life cycle of a handle: every operation, in any order, on a   *)
(* few arguments (an origin inside, before and beyond the slide).          *)
(***************************************************************************)
Square(p) == \A l \in 1..Len(p) : p[l][1] = p[l][2]

Init ==
    /\ backend = "tifffile"
    /\ slide \in {p \in Pyramids(LifeDim, LifeDim, LifeDim) : Square(p)}
    /\ InitHandle

LifeOrigins == {<<0, 0>>, <<0 - LifeOff, 0>>, <<LifeDim + LifeOff, 0>>}
LifeSizes == {<<1, 1>>}
LifeDownsamples == {<<n, 2>> : n \in (0 - 1)..(2 * LifeDim)}

Next ==
    \/ ReadRegion(LifeOrigins, LifeSizes, BOOLEAN, BOOLEAN)
    \/ ReadRegionDs(LifeOrigins, LifeDownsamples, LifeSizes, BOOLEAN, BOOLEAN)
    \/ GetBestLevelForDownsample(LifeDownsamples)
    \/ GetDimensionsForDownsample(LifeDownsamples)
    \/ GetDownsampledSlide(LifeSizes, BOOLEAN, BOOLEAN)
    \/ LevelDownsamples
    \/ LevelDimensions
    \/ store = "open" /\ scope = "none" /\ Close
    \/ Enter
    \/ Exit

Spec == Init /\ [][Next]_vars

\* No operation has been called on the handle yet.
Fresh == call.op = "none"

(***************************************************************************)
(* SpecRegion: one read_region on a fresh handle, over every origin around *)
(* the slide, every level, size and flag.                                  *)
(***************************************************************************)
InitRegion ==
    /\ backend = "tifffile"
    /\ slide \in Pyramids(MaxDim, MaxHeight, MaxLevels)
    /\ InitHandle

NextRegion ==
    \/ Fresh /\ ReadRegion(Origins(0 - MaxSize - 1, MaxDim + 1, MaxHeight + 1), Sizes(MaxSize),
                            BOOLEAN, {FALSE})

SpecRegion == InitRegion /\ [][NextRegion]_vars

(***************************************************************************)
(* SpecMeta: one metadata query on a fresh handle, over every pyramid.     *)
(***************************************************************************)
InitMeta ==
    /\ backend = "tifffile"
    /\ slide \in Pyramids(MetaDim, MetaDim, MetaLevels)
    /\ InitHandle

NextMeta ==
    \/ Fresh /\ LevelDownsamples
    \/ Fresh /\ LevelDimensions
    \/ Fresh /\ GetBestLevelForDownsample(Downsamples(MetaDim))
    \/ Fresh /\ GetDimensionsForDownsample(Downsamples(MetaDim))
    \/ Fresh /\ GetDownsampledSlide(Sizes(MaxSize), BOOLEAN, {FALSE})

SpecMeta == InitMeta /\ [][NextMeta]_vars

(***************************************************************************)
(* SpecDs: one read_region_ds on a fresh handle, over square pyramids,     *)
(* origins around the slide, downsamples in halves, sizes and flags.       *)
(***************************************************************************)
InitDs ==
    /\ backend = "tifffile"
    /\ slide \in {p \in Pyramids(DsDim, DsDim, DsLevels) : Square(p)}
    /\ InitHandle

NextDs ==
    \/ Fresh /\ ReadRegionDs(Origins(0 - 1, DsOrigin, DsOrigin), Downsamples(DsDim),
                              Sizes(MaxSize), BOOLEAN, {FALSE})

SpecDs == InitDs /\ [][NextDs]_vars

(***************************************************************************)
(* SpecClose: closing a handle of any backend: metadata accesses and reads *)
(* in any order (reads of one pixel inside the level, where every backend  *)
(* returns the level's content), close() at any point outside or inside a  *)
(* scope, any number of times.                                             *)
(***************************************************************************)
InitClose ==
    /\ backend \in Backends
    /\ slide \in {p \in Pyramids(CloseDim, CloseDim, CloseDim) : Square(p)}
    /\ InitHandle

NextClose ==
    \/ LevelDimensions
    \/ LevelDownsamples
    \/ TileDimensions
    \/ Mpp
    \/ ReadRegion({<<0, 0>>}, {<<1, 1>>}, {FALSE}, BOOLEAN)
    \/ Close
    \/ Enter
    \/ Exit

SpecClose == InitClose /\ [][NextClose]_vars

(***************************************************************************)
(* Properties of read_region (SpecRegion).                                 *)
(***************************************************************************)
\* the level a read_region call names, and its dimensions
CallW == slide[call.level + 1][1]
CallH == slide[call.level + 1][2]

\* the call's result has exactly the requested shape
ShapeAsRequested ==
    /\ ret.status = "ok"
    /\ ret.tile.h = call.tile_size[2] /\ ret.tile.w = call.tile_size[1]
    /\ ret.mask.h = call.tile_size[2] /\ ret.mask.w = call.tile_size[1]

\* C1: read_region and read_region_ds, for every origin, every level or
\* positive downsample, every positive size and either value of the
\* force-level-0 flag, return a tile and a mask of exactly the requested
\* (h, w), provided the backend read itself does not fail.
C1_ShapeExact ==
    (/\ call.op \in {"read_region", "read_region_ds"}
     /\ call.downsample[1] > 0
     /\ ~call.fail)
    => ShapeAsRequested

\* the requested rectangle has no pixel in common with its level
OutsideLevel ==
    \/ call.x_y[1] >= CallW
    \/ call.x_y[2] >= CallH
    \/ call.x_y[1] + call.tile_size[1] <= 0
    \/ call.x_y[2] + call.tile_size[2] <= 0

AllInvalid ==
    \A c \in Cells(ret.mask.h, ret.mask.w) : ret.mask.at[c] = MaskFalse
AllZero ==
    \A c \in Cells(ret.tile.h, ret.tile.w) : ret.tile.at[c] = 0

\* C2: a read_region request entirely outside its level does not fail: it
\* returns the requested shape, the mask false everywhere, every pixel zero.
C2_OutsideIsPadding ==
    (call.op = "read_region" /\ ~call.fail /\ OutsideLevel)
    => (ShapeAsRequested /\ AllInvalid /\ AllZero)

\* a backend fetch lies inside its level, with a positive extent
FetchInBounds(f) ==
    /\ f.x_y[1] >= 0 /\ f.x_y[2] >= 0
    /\ f.tile_size[1] > 0 /\ f.tile_size[2] > 0
    /\ f.x_y[1] + f.tile_size[1] <= slide[f.level + 1][1]
    /\ f.x_y[2] + f.tile_size[2] <= slide[f.level + 1][2]

\* C3: every backend fetch read_region issues has an origin >= (0, 0), an
\* extent > (0, 0) and ends inside level_dimensions[fetch level].
C3_FetchInBounds ==
    call.op = "read_region" => \A k \in 1..Len(fetches) : FetchInBounds(fetches[k])

\* a direct read (no synthesis from level 0) with a negative origin
\* coordinate whose rectangle still overlaps the level
NegativeOverlap ==
    /\ call.op = "read_region"
    /\ ~call.fail
    /\ ~(call.downsample_level_0 /\ call.level > 0)
    /\ call.x_y[1] < 0 \/ call.x_y[2] < 0
    /\ ~OutsideLevel

\* C4: for such a request the first -origin rows and columns of the output
\* are invalid (mask false, pixel zero) and every other output position
\* (i, j) that maps inside the level is valid and holds the slide's pixel at
\* level coordinate origin + (i, j).
C4_NegativeOrigin ==
    NegativeOverlap =>
      /\ ShapeAsRequested
      /\ \A c \in Cells(call.tile_size[2], call.tile_size[1]) :
            LET lx == call.x_y[1] + c[2]
                ly == call.x_y[2] + c[1]
            IN  IF lx < 0 \/ ly < 0
                THEN ret.mask.at[c] = MaskFalse /\ ret.tile.at[c] = 0
                ELSE (lx < CallW /\ ly < CallH) =>
                       /\ ret.mask.at[c] = MaskTrue
                       /\ ret.tile.at[c] = SlidePixel(slide, call.level, lx, ly)

\* a request one row and one column before the slide that reaches inside it
C4_Witness ==
    /\ NegativeOverlap
    /\ call.x_y = <<0 - 1, 0 - 1>>
    /\ call.tile_size = <<2, 2>>
    /\ ret.status = "ok"
    /\ ret.mask.at[<<0, 0>>] = MaskFalse
    /\ ret.mask.at[<<1, 1>>] = MaskTrue
    /\ ret.tile.at[<<1, 1>>] = SlidePixel(slide, call.level, 0, 0)

(***************************************************************************)
(* Properties of the metadata queries (SpecMeta).                          *)
(***************************************************************************)
\* C5: for every box (w, h) get_downsampled_slide returns an image whose
\* width is <= w and whose height is <= h.
C5_FitsBox ==
    (call.op = "get_downsampled_slide" /\ ret.status = "ok")
    => (ret.tile.w <= call.tile_size[1] /\ ret.tile.h <= call.tile_size[2])

\* the levels of the slide, numbered from 0, and their downsamples
Levels == 0..(Len(slide) - 1)
Lds(i) == level_downsamples(slide)[i + 1]

\* C6 as stated: get_best_level_for_downsample(level_downsamples[i]) returns
\* i for every valid level i.
C6_ExactLevel ==
    call.op = "get_best_level_for_downsample"
    => \A i \in Levels : RatEq(call.downsample, Lds(i)) => ret.level = i

\* C6 as amended: get_best_level_for_downsample(d) returns 0 when
\* d < level_downsamples[0], and otherwise the last level whose downsample
\* does not exceed d; so level_downsamples[i] gives i unless a later level
\* has the same downsample.
C6_LastLevelNotExceeding ==
    call.op = "get_best_level_for_downsample"
    => /\ ret.level \in Levels
       /\ RatLT(call.downsample, Lds(0)) => ret.level = 0
       /\ ~RatLT(call.downsample, Lds(0)) =>
             /\ RatLE(Lds(ret.level), call.downsample)
             /\ \A k \in Levels : k > ret.level => RatLT(call.downsample, Lds(k))
       /\ \A i \in Levels :
             (/\ RatEq(call.downsample, Lds(i))
              /\ \A k \in Levels : k > i => ~RatEq(Lds(k), Lds(i)))
             => ret.level = i

\* the exact downsample of the middle level of three selects that level
C6_Witness ==
    /\ call.op = "get_best_level_for_downsample"
    /\ Len(slide) = 3
    /\ RatEq(call.downsample, Lds(1))
    /\ RatLT(Lds(0), Lds(1)) /\ RatLT(Lds(1), Lds(2))
    /\ ret.level = 1

\* C7 as stated: the derived level_downsamples has level_count entries,
\* starts with 1.0 and is strictly increasing.
C7_StrictlyIncreasing ==
    call.op = "level_downsamples"
    => /\ Len(ret.list) = Len(slide)
       /\ RatEq(ret.list[1], <<1, 1>>)
       /\ \A l \in 2..Len(ret.list) : RatLT(ret.list[l - 1], ret.list[l])

\* C7 as amended: the derived level_downsamples has level_count entries,
\* starts with 1.0 and is non-decreasing (two levels whose width ratios
\* round to the same integer share a downsample).
C7_NonDecreasing ==
    call.op = "level_downsamples"
    => /\ Len(ret.list) = Len(slide)
       /\ RatEq(ret.list[1], <<1, 1>>)
       /\ \A l \in 2..Len(ret.list) : RatLE(ret.list[l - 1], ret.list[l])

\* three levels of widths 3, 2, 1: downsamples 1, 2, 3
C7_Witness ==
    /\ call.op = "level_downsamples"
    /\ Len(slide) = 3
    /\ slide[1][1] = 3 /\ slide[2][1] = 2 /\ slide[3][1] = 1
    /\ ret.list = <<(<<1, 1>>), (<<2, 1>>), (<<3, 1>>)>>

\* C8 as stated: get_dimensions_for_downsample(level_downsamples[i]) returns
\* exactly level_dimensions[i] for every valid level i.
C8_ExactDimensions ==
    call.op = "get_dimensions_for_downsample"
    => \A i \in Levels : RatEq(call.downsample, Lds(i)) => ret.dims = slide[i + 1]

\* C8 as amended: get_dimensions_for_downsample(level_downsamples[i]) returns
\* level_dimensions[i] for every level i that is the first with its
\* downsample; a positive downsample that matches no level yields
\* (round(w0 / d), round(h0 / d)).
C8_FirstLevelDimensions ==
    (call.op = "get_dimensions_for_downsample" /\ call.downsample[1] > 0)
    => /\ ret.status = "ok"
       /\ \A i \in Levels :
             (/\ RatEq(call.downsample, Lds(i))
              /\ \A k \in Levels : k < i => ~RatEq(Lds(k), Lds(i)))
             => ret.dims = slide[i + 1]
       /\ (\A i \in Levels : ~RatEq(call.downsample, Lds(i)))
          => ret.dims = <<PyRound(slide[1][1] * call.downsample[2], call.downsample[1]),
                           PyRound(slide[1][2] * call.downsample[2], call.downsample[1])>>

\* a level whose stored height is not round(h0 / downsample)
C8_Witness ==
    /\ call.op = "get_dimensions_for_downsample"
    /\ Len(slide) >= 2
    /\ RatEq(call.downsample, Lds(1))
    /\ ~RatEq(Lds(0), Lds(1))
    /\ slide[2][2] # PyRound(slide[1][2] * call.downsample[2], call.downsample[1])
    /\ ret.dims = slide[2]

(***************************************************************************)
(* Properties of the handle's life cycle (Spec).                           *)
(***************************************************************************)
\* the step is a downsample-based call with downsample <= 0
RejectedCall ==
    /\ call'.op \in {"read_region_ds", "get_dimensions_for_downsample"}
    /\ call'.downsample[1] <= 0

\* C9: when downsample <= 0, read_region_ds and
\* get_dimensions_for_downsample raise the invalid-argument error
\* (RuntimeError) before any work: no backend fetch is issued, nothing is
\* memoized and the handle is left as it was.
C9_RejectsNonPositive ==
    [][RejectedCall =>
         /\ ret'.status = "RuntimeError"
         /\ fetches' = <<>>
         /\ cached' = cached
         /\ store' = store
         /\ slide' = slide]_vars

\* read_region_ds rejected on a handle that has memoized nothing
C9_Witness ==
    /\ call.op = "read_region_ds"
    /\ call.downsample[1] <= 0
    /\ ret.status = "RuntimeError"
    /\ cached = {}
    /\ fetches = <<>>

\* C10: a handle used as a scoped resource is closed exactly once on every
\* exit path of the scope, on normal completion and when the body raises,
\* and the body's exception is propagated to the caller, not suppressed.
C10_ScopeCloses ==
    /\ scope \in {"body", "unwinding"} => closes = 0 /\ store = "open"
    /\ scope = "unwinding" => pending = ret.status /\ ret.status # "ok"
    /\ scope = "exited" => closes = 1 /\ store = "closed" /\ propagated = pending

\* a scope left by a backend failure during a read
C10_Witness ==
    /\ scope = "exited"
    /\ pending = "BackendError"
    /\ propagated = "BackendError"
    /\ closes = 1

(***************************************************************************)
(* Properties of close() (SpecClose).                                      *)
(***************************************************************************)
\* C11: in every backend, after any sequence of metadata accesses and reads
\* followed by close(), none of the lazily memoized attributes
\* (_level_downsamples, _tile_dimensions, _level_dimensions, _mpp) remains
\* on the handle: a closed handle holds no geometry computed before the close.
C11_ClosedHoldsNoMemo == store = "closed" => cached = {}

\* an IsyntaxReader closed by its scope after a read in the body failed: the
\* read had memoized the level geometry before the failure
C11_Witness ==
    /\ backend = "philips"
    /\ scope = "exited"
    /\ pending = "BackendError"
    /\ closes = 1
    /\ store = "closed"
    /\ cached = {}

\* C12: close() on a handle that is already closed (an explicit close inside
\* a scope followed by the scope's own close, or two explicit closes) raises
\* no error and has no effect: the handle is as the first close left it.
C12_SecondCloseHarmless ==
    (call.op \in {"close", "__exit__"} /\ closes >= 2)
    => /\ ret.status = "ok"
       /\ store = "closed"
       /\ cached = {}
       /\ call.op = "__exit__" => propagated = pending

(***************************************************************************)
(* Properties of read_region_ds (SpecDs).                                  *)
(***************************************************************************)
\* a read_region_ds call with a positive downsample that matches no level,
\* synthesis from level 0 not forced, the backend read not failing
ScaledRead ==
    /\ call.op = "read_region_ds"
    /\ call.downsample[1] > 0
    /\ ~RatIn(call.downsample, level_downsamples(slide))
    /\ ~call.downsample_level_0
    /\ ~call.fail

\* the level such a call reads, and round(v * d / level_downsamples[L])
ScaledLevel == get_best_level_for_downsample(level_downsamples(slide), call.downsample)
Scaled(v) ==
    PyRound(v * call.downsample[1] * Lds(ScaledLevel)[2],
            call.downsample[2] * Lds(ScaledLevel)[1])

\* the part of [start, start + extent) inside [0, limit): <<origin, extent>>
Clipped(start, extent, limit) ==
    <<Max(start, 0), Min(start + extent, limit) - Max(start, 0)>>

\* the call issued exactly one backend fetch: at ScaledLevel, of the scaled
\* origin and size clipped to that level
OneScaledFetch ==
    /\ Len(fetches) = 1
    /\ fetches[1].level = ScaledLevel
    /\ LET cx == Clipped(Scaled(call.x_y[1]), Scaled(call.tile_size[1]),
                         slide[ScaledLevel + 1][1])
           cy == Clipped(Scaled(call.x_y[2]), Scaled(call.tile_size[2]),
                         slide[ScaledLevel + 1][2])
       IN  /\ fetches[1].x_y = <<cx[1], cy[1]>>
           /\ fetches[1].tile_size = <<cx[2], cy[2]>>

\* C13: for a positive downsample d that matches no entry of
\* level_downsamples, synthesis not forced, read_region_ds performs exactly
\* one backend fetch, at level L = get_best_level_for_downsample(d), of the
\* requested origin and size each scaled to round(v * d /
\* level_downsamples[L]) and clipped to the level, and resamples that block
\* to the requested size, which is the shape of the result.
C13_ScaledFetchResampled == ScaledRead => (OneScaledFetch /\ ShapeAsRequested)

(***************************************************************************)
(* Properties of read_region synthesized from level 0 (SpecRegion).        *)
(***************************************************************************)
\* a read_region call rendered from level 0 for a level whose dimensions
\* divide those of level 0 exactly by the downsample
ExactSynthesis ==
    /\ call.op = "read_region"
    /\ ~call.fail
    /\ call.downsample_level_0
    /\ call.level > 0
    /\ slide[1][1] = PyRound(slide[1][1], CallW) * CallW
    /\ slide[1][2] = PyRound(slide[1][1], CallW) * CallH

\* C14: such a read has the validity layout of the same request read
\* directly from the level: the result has the requested shape, the first
\* max(0, -origin) rows and columns are padding (mask false, pixel zero),
\* the positions that map inside level_dimensions[level] are valid, and the
\* positions beyond the far edge are padding; for every origin and size.
C14_SynthesisLayout ==
    ExactSynthesis =>
      /\ ShapeAsRequested
      /\ \A c \in Cells(call.tile_size[2], call.tile_size[1]) :
            LET lx == call.x_y[1] + c[2]
                ly == call.x_y[2] + c[1]
            IN  IF lx >= 0 /\ ly >= 0 /\ lx < CallW /\ ly < CallH
                THEN ret.mask.at[c] = MaskTrue
                ELSE ret.mask.at[c] = MaskFalse /\ ret.tile.at[c] = 0
====
